---- MODULE Spec2Model ----
(***************************************************************************)
(* State-machine model of indexing.js: the conditional ingestion phase,    *)
(* the CLI loop of main(), the retrieval-and-answer operation chatting()   *)
(* and the rolling conversation history with formatHistory().              *)
(*                                                                         *)
(* Text read from the terminal is a sequence of UTF-16 code units, so that *)
(* toLowerCase() and trim() are computed code unit by code unit.           *)
(* Text produced by the program (console lines, the formatted history,     *)
(* the context) is a TLA+ string built with \o.  Non-ASCII decorations of  *)
(* the console messages (emoji, arrows, check marks) are left out of the   *)
(* message literals.                                                       *)
(***************************************************************************)
EXTENDS Integers, Sequences, FiniteSets, TLC

\* ------------------------------------------------------------------ bounds
\* Largest number of answers stored during one run (ticks of the clock).
MaxTurns == 6
\* Largest number of matches drawn for one vector-index response.
MaxMatches == 2

\* --------------------------------------------------------------- constants
\* indexing.js:194  "Keep only last 5 conversations"
HISTORY_LIMIT == 5
\* indexing.js:22   TOP_K_RESULTS = USE_OLLAMA ? 3 : 5
TOP_K_OLLAMA == 3
TOP_K_GEMINI == 5
\* process exit codes; Running stands for "the process has not ended"
Running == -1
EXIT_OK == 0
EXIT_FAILURE == 1

VARIABLES
    UPLOAD_TO_PINECONE,   \* process.env.UPLOAD_TO_PINECONE
    USE_OLLAMA_ENV,       \* process.env.USE_OLLAMA
    mainPc,               \* position of the top-level script / main()
    chatPc,               \* position of the chatting() call, "idle" if none
    conversationHistory,  \* the module-level array
    question,             \* argument of the chatting() call in flight
    invokeArgs,           \* argument of chain.invoke() while it is awaited
    console,              \* lines written since the last prompt was shown
    exitCode,             \* exit code of the process, Running while alive
    clock,                \* source of timestamps, one tick per stored turn
    \* observation variables (not program state)
    answered,             \* turns stored since the start or the last clear
    calls,                \* external calls made for the current input line
    outcome,              \* how the current input line was settled
    histBefore,           \* conversationHistory when the line was read
    lastInput,            \* the line read last
    response,             \* what pineconeIndex.query() returned for it
    formatLen,            \* history length at its last formatHistory() call
    cleared,              \* a clear was done and no turn was stored since
    ingestion,            \* "none", "running", "done" or "failed"
    loopEntered           \* main() has shown its first prompt

vars == <<UPLOAD_TO_PINECONE, USE_OLLAMA_ENV, mainPc, chatPc,
          conversationHistory, question, invokeArgs, console, exitCode,
          clock, answered, calls, outcome, histBefore, lastInput, response,
          formatLen, cleared, ingestion, loopEntered>>

\* ------------------------------------------------------------ text helpers
\* A character of an input line is its UTF-16 code unit.  The operators below
\* are exact on the code units 0..255, on every white-space code unit and on
\* U+0130 and U+212A/U+212B; input lines are drawn from these.

\* The code units String.prototype.trim() removes: ECMAScript WhiteSpace
\* (TAB, VT, FF, ZWNBSP and the Unicode category Zs) and LineTerminator
\* (LF, CR, LS, PS).
WhiteSpace ==
    {9, 10, 11, 12, 13, 32, 160, 5760} \cup (8192..8202)
        \cup {8232, 8233, 8239, 8287, 12288, 65279}

\* The characters U+0020 to U+005F, in order.
AsciiFromSpace ==
    <<
       " ", "!", "\"", "#", "$", "%", "&", "'", "(", ")", "*", "+", ",", "-", ".", "/",
       "0", "1", "2", "3", "4", "5", "6", "7", "8", "9", ":", ";", "<", "=", ">", "?",
       "@", "A", "B", "C", "D", "E", "F", "G", "H", "I", "J", "K", "L", "M", "N", "O",
       "P", "Q", "R", "S", "T", "U", "V", "W", "X", "Y", "Z", "[", "\\", "]", "^", "_"
    >>

\* The characters U+0061 to U+007E, in order.
AsciiFromLowerA ==
    <<
       "a", "b", "c", "d", "e", "f", "g", "h", "i", "j", "k", "l", "m", "n", "o", "p",
       "q", "r", "s", "t", "u", "v", "w", "x", "y", "z", "{", "|", "}", "~"
    >>

\* The text of one code unit inside a program string.  A code unit a TLA+
\* string cannot hold (the grave accent U+0060 among them) is written <U+n>,
\* n in decimal.
unitText(c) ==
    IF c \in 32..95 THEN AsciiFromSpace[c - 31]
    ELSE IF c \in 97..126 THEN AsciiFromLowerA[c - 96]
    ELSE IF c = 9 THEN "\t"
    ELSE IF c = 10 THEN "\n"
    ELSE IF c = 12 THEN "\f"
    ELSE IF c = 13 THEN "\r"
    ELSE "<U+" \o ToString(c) \o ">"

\* the string spelled by a sequence of code units
RECURSIVE Str(_)
Str(cs) == IF cs = <<>> THEN "" ELSE unitText(Head(cs)) \o Str(Tail(cs))

\* The lower-case mapping of one code unit: A-Z, the Latin-1 capitals
\* (U+00C0-U+00DE without the multiplication sign), U+0130 (which becomes
\* i followed by U+0307), the Kelvin and Angstrom signs.
LowerUnits(c) ==
    IF c \in 65..90 THEN <<c + 32>>
    ELSE IF c \in 192..222 /\ c # 215 THEN <<c + 32>>
    ELSE IF c = 304 THEN <<105, 775>>
    ELSE IF c = 8490 THEN <<107>>
    ELSE IF c = 8491 THEN <<229>>
    ELSE <<c>>

\* String.prototype.toLowerCase()
RECURSIVE toLowerCase(_)
toLowerCase(cs) ==
    IF cs = <<>> THEN <<>> ELSE LowerUnits(Head(cs)) \o toLowerCase(Tail(cs))

RECURSIVE trimStart(_)
trimStart(cs) ==
    IF cs # <<>> /\ Head(cs) \in WhiteSpace THEN trimStart(Tail(cs)) ELSE cs

RECURSIVE trimEnd(_)
trimEnd(cs) ==
    IF cs # <<>> /\ cs[Len(cs)] \in WhiteSpace
    THEN trimEnd(SubSeq(cs, 1, Len(cs) - 1))
    ELSE cs

\* String.prototype.trim()
trim(cs) == trimEnd(trimStart(cs))

\* Array.prototype.join(sep) on an array of strings
RECURSIVE join(_, _)
join(strs, sep) ==
    IF strs = <<>> THEN ""
    ELSE IF Len(strs) = 1 THEN strs[1]
    ELSE strs[1] \o sep \o join(Tail(strs), sep)

\* Array.prototype.filter(text => text.length > 0)  (indexing.js:132)
RECURSIVE filterNonEmpty(_)
filterNonEmpty(strs) ==
    IF strs = <<>> THEN <<>>
    ELSE IF Len(Head(strs)) > 0
         THEN <<Head(strs)>> \o filterNonEmpty(Tail(strs))
         ELSE filterNonEmpty(Tail(strs))

Min(a, b) == IF a < b THEN a ELSE b

\* ------------------------------------------------------------ input domains
\* Lines readlineSync.question() may return, as code units.
CmdExit == <<101, 120, 105, 116>>                      \* exit
CmdHistory == <<104, 105, 115, 116, 111, 114, 121>>    \* history
CmdClear == <<99, 108, 101, 97, 114>>                  \* clear
Inputs ==
    { CmdExit,
      <<69, 88, 73, 84>>,                    \* EXIT
      <<69, 120, 105, 116>>,                 \* Exit
      CmdHistory,
      <<72, 105, 115, 84, 111, 114, 121>>,   \* HisTory
      CmdClear,
      <<67, 76, 69, 65, 82>>,                \* CLEAR
      <<>>,                                  \* the empty line
      <<32>>,                                \* one space
      <<32, 9, 32>>,                         \* space, tab, space
      <<12>>,                                \* a form feed
      <<160, 11, 8232>>,                     \* no-break space, VT, LS
      <<104, 105, 63>>,                      \* hi?
      <<99, 108, 101, 97, 114, 32>> }        \* clear followed by a space

\* Values of the two environment flags ("undefined" when the variable is unset).
UploadEnvValues == {"true", "false", "TRUE"}
OllamaEnvValues == {"true", "false"}

\* Texts the chat model may return.
Answers == {"42"}

\* A match of the vector index: metadata may be absent, metadata.text may be
\* absent, and the text may be empty.
MatchKinds ==
    { [hasMetadata |-> FALSE, hasText |-> FALSE, text |-> ""],
      [hasMetadata |-> TRUE,  hasText |-> FALSE, text |-> ""],
      [hasMetadata |-> TRUE,  hasText |-> TRUE,  text |-> ""],
      [hasMetadata |-> TRUE,  hasText |-> TRUE,  text |-> "alpha"],
      [hasMetadata |-> TRUE,  hasText |-> TRUE,  text |-> "beta"] }

\* Messages of the exceptions the external services raise.
EmbedErrors == {"embedding provider unreachable"}
QueryErrors == {"vector index unreachable"}
InvokeErrors == {"quota exceeded"}
IngestErrors == {"ingestion step failed"}
\* reading .length of an undefined matches field (indexing.js:123)
UndefinedMatchesError == "Cannot read properties of undefined (reading 'length')"

\* ----------------------------------------------------------- configuration
\* indexing.js:20
SHOULD_UPLOAD == UPLOAD_TO_PINECONE = "true"
\* indexing.js:21
USE_OLLAMA == USE_OLLAMA_ENV = "true"
\* indexing.js:22
TOP_K_RESULTS == IF USE_OLLAMA THEN TOP_K_OLLAMA ELSE TOP_K_GEMINI

\* Responses of pineconeIndex.query(): at most topK matches.
MatchLists ==
    UNION { [1..n -> MatchKinds] : n \in 0..Min(TOP_K_RESULTS, MaxMatches) }

\* ------------------------------------------------------------- the history
\* One rendered turn of formatHistory() (indexing.js:102)
formatEntry(entry, index) ==
    "[Turn " \o ToString(index + 1) \o "]\nUser: " \o Str(entry.question)
        \o "\nAssistant: " \o entry.answer

NO_HISTORY == "No previous conversation."

\* Variant of formatHistoryOf: no sentinel for the empty history.
formatHistoryOfNoSentinel(h) ==
    join([i \in 1..Len(h) |-> formatEntry(h[i], i - 1)], "\n\n")

\* formatHistory() applied to a history array (indexing.js:96-104)
formatHistoryOf(h) ==
    IF Len(h) = 0 THEN NO_HISTORY
    ELSE join([i \in 1..Len(h) |-> formatEntry(h[i], i - 1)], "\n\n")

formatHistory == formatHistoryOf(conversationHistory)

\* Variant of storeTurn: the length is checked before the push.
storeTurnCheckFirst(h, turn) ==
    IF Len(h) > HISTORY_LIMIT THEN Tail(Append(h, turn)) ELSE Append(h, turn)

\* Variant of storeTurn: pop() instead of shift(), the newest turn is dropped.
storeTurnPop(h, turn) ==
    LET pushed == Append(h, turn)
    IN  IF Len(pushed) > HISTORY_LIMIT
        THEN SubSeq(pushed, 1, Len(pushed) - 1) ELSE pushed

\* conversationHistory.push(turn) followed by the length check and shift()
\* (indexing.js:187-196)
storeTurn(h, turn) ==
    LET pushed == Append(h, turn)
    IN  IF Len(pushed) > HISTORY_LIMIT THEN Tail(pushed) ELSE pushed

\* Variant of matchText: String(match.metadata?.text), a missing text is
\* rendered as the word undefined.
matchTextStringified(m) ==
    IF m.hasMetadata /\ m.hasText THEN m.text ELSE "undefined"

\* match.metadata?.text || ''   (indexing.js:131)
matchText(m) == IF m.hasMetadata /\ m.hasText /\ m.text # "" THEN m.text ELSE ""

CONTEXT_SEPARATOR == "\n\n---\n\n"

\* the context string of a match list (indexing.js:130-133)
buildContext(matches) ==
    join(filterNonEmpty([i \in 1..Len(matches) |-> matchText(matches[i])]),
         CONTEXT_SEPARATOR)

\* ----------------------------------------------------------- the CLI loop
\* Variant of dispatch: the commands are compared without toLowerCase().
dispatchCaseSensitive(line) ==
    IF line = CmdExit THEN "exit"
    ELSE IF line = CmdHistory THEN "history"
    ELSE IF line = CmdClear THEN "clear"
    ELSE IF trim(line) # <<>> THEN "ask"
    ELSE "skip"

\* Variant of dispatch: if (userProblem) instead of if (userProblem.trim()).
dispatchNoTrim(line) ==
    IF toLowerCase(line) = CmdExit THEN "exit"
    ELSE IF toLowerCase(line) = CmdHistory THEN "history"
    ELSE IF toLowerCase(line) = CmdClear THEN "clear"
    ELSE IF line # <<>> THEN "ask"
    ELSE "skip"

\* The if-chain of main() (indexing.js:211-231): what one input line becomes.
dispatch(line) ==
    IF toLowerCase(line) = CmdExit THEN "exit"
    ELSE IF toLowerCase(line) = CmdHistory THEN "history"
    ELSE IF toLowerCase(line) = CmdClear THEN "clear"
    ELSE IF trim(line) # <<>> THEN "ask"
    ELSE "skip"

NoArgs == [context |-> "", question |-> "", history |-> ""]

PROMPT == "Ask me anything--> "
BANNER == <<"\n=== RAG Chat Bot Ready ===",
            "Type \"exit\" to quit, \"history\" to see conversation history, \"clear\" to clear history\n">>
MSG_NO_DOCS == "\n No relevant documents found in database. Please check if documents were uploaded.\n"
MSG_NO_TEXT == "\n  No text content found in search results.\n"

NoResponse == [status |-> "none", matches |-> <<>>]

\* Variant of searchOutcome: neither early return is taken.
searchOutcomeNoGuards(matches) == "context"

\* The two early returns after the search (indexing.js:125-138).
searchOutcome(matches) ==
    IF Len(matches) = 0 THEN "no_matches"
    ELSE IF buildContext(matches) = "" THEN "no_text"
    ELSE "context"

\* ------------------------------------------------------------------- Init
Init ==
    /\ UPLOAD_TO_PINECONE \in UploadEnvValues
    /\ USE_OLLAMA_ENV \in OllamaEnvValues
    /\ mainPc = "init"
    /\ chatPc = "idle"
    /\ conversationHistory = <<>>
    /\ question = <<>>
    /\ invokeArgs = NoArgs
    /\ console = <<>>
    /\ exitCode = Running
    /\ clock = 0
    /\ answered = <<>>
    /\ calls = <<>>
    /\ outcome = "none"
    /\ histBefore = <<>>
    /\ lastInput = <<>>
    /\ response = NoResponse
    /\ formatLen = 0
    /\ cleared = FALSE
    /\ ingestion = "none"
    /\ loopEntered = FALSE

chatVars == <<chatPc, conversationHistory, question, invokeArgs, clock,
              answered, calls, outcome, histBefore, lastInput, response,
              formatLen, cleared>>
envVars == <<UPLOAD_TO_PINECONE, USE_OLLAMA_ENV>>

\* -------------------------------------------------- top-level script, 60-93
\* Variant of abortUpload: the error is logged but process.exit(1) is missing,
\* so the script falls through to main().
abortUploadNoExit(msg) ==
    /\ console' = console \o <<" Error during upload: " \o msg,
                               "Full error: " \o msg>> \o BANNER
    /\ mainPc' = "loop"
    /\ exitCode' = exitCode
    /\ ingestion' = "failed"

\* The catch block of the upload phase: log and process.exit(1) (85-89).
abortUpload(msg) ==
    /\ console' = console \o <<" Error during upload: " \o msg,
                               "Full error: " \o msg>>
    /\ mainPc' = "exited"
    /\ exitCode' = EXIT_FAILURE
    /\ ingestion' = "failed"

\* The branch on SHOULD_UPLOAD (61-63, 90-93); the else branch falls through
\* to the call of main() (235, 204-206).
Startup ==
    /\ mainPc = "init"
    /\ IF SHOULD_UPLOAD
       THEN /\ console' = <<"Starting document upload process...">>
            /\ mainPc' = "pdf_load"
            /\ ingestion' = "running"
       ELSE /\ console' = <<"Skipping upload (UPLOAD_TO_PINECONE not set to true)",
                            "Using existing documents in Pinecone...">> \o BANNER
            /\ mainPc' = "loop"
            /\ ingestion' = "none"
    /\ UNCHANGED <<envVars, chatVars, exitCode, loopEntered>>

\* await pdfLoader.load() (66-68)
PdfLoad ==
    /\ mainPc = "pdf_load"
    /\ \/ /\ console' = Append(console, "Loaded pages from PDF")
          /\ mainPc' = "split"
          /\ UNCHANGED <<exitCode, ingestion>>
       \/ \E msg \in IngestErrors : abortUpload(msg)
    /\ UNCHANGED <<envVars, chatVars, loopEntered>>

\* await textSplitter.splitDocuments(rawDocs) (71-79)
SplitDocuments ==
    /\ mainPc = "split"
    /\ \/ /\ console' = console \o <<"Created chunks",
                                     "Uploading to Pinecone (this may take a minute)...">>
          /\ mainPc' = "upload"
          /\ UNCHANGED <<exitCode, ingestion>>
       \/ \E msg \in IngestErrors : abortUpload(msg)
    /\ UNCHANGED <<envVars, chatVars, loopEntered>>

\* await PineconeStore.fromDocuments(...) (80-84), then main() (235, 204-206)
FromDocuments ==
    /\ mainPc = "upload"
    /\ \/ /\ console' = Append(console, "Upload complete!") \o BANNER
          /\ mainPc' = "loop"
          /\ ingestion' = "done"
          /\ UNCHANGED exitCode
       \/ \E msg \in IngestErrors : abortUpload(msg)
    /\ UNCHANGED <<envVars, chatVars, loopEntered>>

\* ------------------------------------------------------------ main(), 208-232
\* Top of the while loop: readlineSync.question() shows the prompt and blocks.
Prompt ==
    /\ mainPc = "loop"
    /\ mainPc' = "read"
    /\ console' = <<PROMPT>>
    /\ loopEntered' = TRUE
    /\ calls' = <<>>
    /\ outcome' = "none"
    /\ histBefore' = conversationHistory
    /\ lastInput' = <<>>
    /\ response' = NoResponse
    /\ formatLen' = 0
    /\ UNCHANGED <<envVars, chatPc, conversationHistory, question, invokeArgs,
                   exitCode, clock, answered, cleared, ingestion>>

\* One line is read and dispatched (209-231).  A question starts chatting(),
\* which runs up to its first await: embeddings.embedQuery() (107-113).
ReadLine ==
    /\ mainPc = "read"
    /\ \E line \in Inputs :
          /\ dispatch(line) = "ask" => clock < MaxTurns
          /\ lastInput' = line
          /\ histBefore' = conversationHistory
          /\ response' = NoResponse
          /\ CASE dispatch(line) = "exit" ->
                    /\ console' = Append(console, "Goodbye!")
                    /\ mainPc' = "done"
                    /\ exitCode' = EXIT_OK
                    /\ outcome' = "exit"
                    /\ UNCHANGED <<chatPc, conversationHistory, question,
                                   answered, calls, formatLen, cleared>>
               [] dispatch(line) = "history" ->
                    /\ console' = console \o
                          <<"\n=== Conversation History ===",
                            IF formatHistory = "" THEN "No history yet."
                                                  ELSE formatHistory,
                            "===========================\n">>
                    /\ formatLen' = Len(conversationHistory)
                    /\ mainPc' = "loop"
                    /\ outcome' = "history"
                    /\ UNCHANGED <<chatPc, conversationHistory, question,
                                   answered, calls, exitCode, cleared>>
               [] dispatch(line) = "clear" ->
                    /\ conversationHistory' = <<>>
                    /\ console' = Append(console, "History cleared!\n")
                    /\ mainPc' = "loop"
                    /\ outcome' = "clear"
                    /\ answered' = <<>>
                    /\ cleared' = TRUE
                    /\ UNCHANGED <<chatPc, question, calls, exitCode, formatLen>>
               [] dispatch(line) = "ask" ->
                    /\ console' = console \o <<"Processing your question...",
                                               "  Creating embedding...">>
                    /\ question' = line
                    /\ chatPc' = "embed"
                    /\ calls' = <<"embed">>
                    /\ mainPc' = "await"
                    /\ outcome' = "pending"
                    /\ UNCHANGED <<conversationHistory, answered, exitCode,
                                   formatLen, cleared>>
               [] OTHER ->
                    /\ mainPc' = "loop"
                    /\ outcome' = "skip"
                    /\ UNCHANGED <<chatPc, conversationHistory, question,
                                   console, answered, calls, exitCode,
                                   formatLen, cleared>>
    /\ UNCHANGED <<envVars, invokeArgs, clock, ingestion, loopEntered>>

\* Variant of Resume: chatting(userProblem) is not awaited.
ResumeNoAwait ==
    /\ mainPc = "await"
    /\ mainPc' = "loop"
    /\ UNCHANGED <<envVars, chatVars, console, exitCode, ingestion, loopEntered>>

\* await chatting(userProblem) completes: main() goes round the loop (230-232).
Resume ==
    /\ mainPc = "await"
    /\ chatPc = "idle"
    /\ mainPc' = "loop"
    /\ UNCHANGED <<envVars, chatVars, console, exitCode, ingestion, loopEntered>>

\* --------------------------------------------------------- chatting(), 107-201
\* Variant of catchError: the failed question is stored as a turn.
catchErrorStores(msg) ==
    /\ console' = Append(console, "Error during chatting: " \o msg)
    /\ chatPc' = "idle"
    /\ outcome' = "threw"
    /\ invokeArgs' = NoArgs
    /\ conversationHistory' =
          storeTurn(conversationHistory,
                    [question |-> question, answer |-> msg, timestamp |-> clock])
    /\ UNCHANGED <<clock, answered, cleared>>

\* The catch block (198-200): log the message and return.
catchError(msg) ==
    /\ console' = Append(console, "Error during chatting: " \o msg)
    /\ chatPc' = "idle"
    /\ outcome' = "threw"
    /\ invokeArgs' = NoArgs
    /\ UNCHANGED <<conversationHistory, clock, answered, cleared>>

\* embeddings.embedQuery(question) settles (113-118); on success the search
\* is issued.
EmbedQuery ==
    /\ chatPc = "embed"
    /\ \/ /\ console' = console \o <<"  Embedding created",
                                     "  Searching Pinecone...">>
          /\ chatPc' = "query"
          /\ calls' = Append(calls, "query")
          /\ UNCHANGED <<conversationHistory, clock, answered, cleared,
                         outcome, invokeArgs>>
       \/ /\ \E msg \in EmbedErrors : catchError(msg)
          /\ UNCHANGED calls
    /\ UNCHANGED <<envVars, mainPc, question, exitCode, histBefore, lastInput,
                   response, formatLen, ingestion, loopEntered>>

\* What follows a response whose matches field is an array (123-181): the
\* "Found n" line, the two early returns, or formatHistory() and the call of
\* chain.invoke().
afterSearch(matches) ==
    LET found == "  Found " \o ToString(Len(matches)) \o " relevant documents"
    IN  CASE searchOutcome(matches) = "no_matches" ->
               /\ console' = console \o <<found, MSG_NO_DOCS>>
               /\ chatPc' = "idle"
               /\ outcome' = "no_matches"
               /\ UNCHANGED <<invokeArgs, calls, formatLen>>
          [] searchOutcome(matches) = "no_text" ->
               /\ console' = console \o <<found, MSG_NO_TEXT>>
               /\ chatPc' = "idle"
               /\ outcome' = "no_text"
               /\ UNCHANGED <<invokeArgs, calls, formatLen>>
          [] OTHER ->
               /\ console' = console \o <<found, "  Asking AI...">>
               /\ formatLen' = Len(conversationHistory)
               /\ invokeArgs' = [context |-> buildContext(matches),
                                 question |-> Str(question),
                                 history |-> formatHistory]
               /\ chatPc' = "invoke"
               /\ calls' = Append(calls, "invoke")
               /\ UNCHANGED outcome

\* pineconeIndex.query(...) settles (118-181).
PineconeQuery ==
    /\ chatPc = "query"
    /\ \/ \E matches \in MatchLists :
             /\ response' = [status |-> "matches", matches |-> matches]
             /\ afterSearch(matches)
             /\ UNCHANGED <<conversationHistory, clock, answered, cleared>>
       \/ /\ response' = [status |-> "undefined", matches |-> <<>>]
          /\ catchError(UndefinedMatchesError)
          /\ UNCHANGED <<calls, formatLen>>
       \/ /\ \E msg \in QueryErrors : catchError(msg)
          /\ UNCHANGED <<calls, formatLen, response>>
    /\ UNCHANGED <<envVars, mainPc, question, exitCode, histBefore, lastInput,
                   ingestion, loopEntered>>

\* chain.invoke(...) settles (177-196); on success the turn is stored.
ChainInvoke ==
    /\ chatPc = "invoke"
    /\ \/ \E answer \in Answers :
             LET turn == [question |-> question, answer |-> answer,
                          timestamp |-> clock + 1]
             IN  /\ console' = console \o <<"  Response received\n",
                                            answer \o "\n">>
                 /\ conversationHistory' = storeTurn(conversationHistory, turn)
                 /\ clock' = clock + 1
                 /\ answered' = Append(answered, turn)
                 /\ cleared' = FALSE
                 /\ calls' = Append(calls, "store")
                 /\ outcome' = "answered"
                 /\ chatPc' = "idle"
                 /\ invokeArgs' = NoArgs
       \/ /\ \E msg \in InvokeErrors : catchError(msg)
          /\ UNCHANGED calls
    /\ UNCHANGED <<envVars, mainPc, question, exitCode, histBefore, lastInput,
                   response, formatLen, ingestion, loopEntered>>

\* ------------------------------------------------------------ specification
Next ==
    \/ Startup
    \/ PdfLoad
    \/ SplitDocuments
    \/ FromDocuments
    \/ Prompt
    \/ ReadLine
    \/ Resume
    \/ EmbedQuery
    \/ PineconeQuery
    \/ ChainInvoke

Spec == Init /\ [][Next]_vars

TypeOK ==
    /\ mainPc \in {"init", "pdf_load", "split", "upload", "loop", "read",
                   "await", "done", "exited"}
    /\ chatPc \in {"idle", "embed", "query", "invoke"}
    /\ exitCode \in {Running, EXIT_OK, EXIT_FAILURE}
    /\ clock \in 0..MaxTurns
    /\ Len(conversationHistory) <= HISTORY_LIMIT + 1

\* ================================================================ properties
\* Helpers of the properties, written without the operators of the model.
IsPrefix(a, b) == Len(a) <= Len(b) /\ SubSeq(b, 1, Len(a)) = a

\* line spells cmd (lower-case ASCII letters), each letter in either case
SpellsCommand(line, cmd) ==
    /\ Len(line) = Len(cmd)
    /\ \A i \in 1..Len(cmd) : line[i] \in {cmd[i], cmd[i] - 32}

IsReserved(line) ==
    \/ SpellsCommand(line, CmdExit)
    \/ SpellsCommand(line, CmdHistory)
    \/ SpellsCommand(line, CmdClear)

IsBlank(line) == \A i \in 1..Len(line) : line[i] \in WhiteSpace

\* a line has been read and its handling has started
LineRead == outcome # "none"

LastOf(n, seq) == SubSeq(seq, Len(seq) - Min(n, Len(seq)) + 1, Len(seq))

RenderTurn(n, t) ==
    "[Turn " \o ToString(n) \o "]\nUser: " \o Str(t.question)
        \o "\nAssistant: " \o t.answer

RECURSIVE Transcript(_, _)
Transcript(ts, i) ==
    IF i > Len(ts) THEN ""
    ELSE RenderTurn(i, ts[i]) \o (IF i < Len(ts) THEN "\n\n" ELSE "")
            \o Transcript(ts, i + 1)

\* the response holds at least one match and none has a non-empty text
AllTextsEmpty ==
    /\ response.status = "matches"
    /\ Len(response.matches) > 0
    /\ \A i \in 1..Len(response.matches) :
          \/ ~response.matches[i].hasMetadata
          \/ ~response.matches[i].hasText
          \/ response.matches[i].text = ""

SomeTextPresent ==
    /\ response.status = "matches"
    /\ \E i \in 1..Len(response.matches) :
          /\ response.matches[i].hasMetadata
          /\ response.matches[i].hasText
          /\ response.matches[i].text # ""

\* C1: the history holds at most 5 turns whenever the loop is about to read
\* an input line and whenever formatHistory() was called.
Thm_C1_HistoryBounded ==
    /\ mainPc = "read" => Len(conversationHistory) <= 5
    /\ formatLen <= 5

\* the loop waits for input with a full history after a turn was evicted
Wit_C1_FullAfterEviction ==
    /\ mainPc = "read"
    /\ Len(conversationHistory) = 5
    /\ Len(answered) = 6

\* C2: after n successful answers with no clear in between, the history is
\* exactly the last min(n, 5) of them in the order they were answered, and
\* formatHistory() renders them in that order numbered Turn 1..min(n, 5).
Thm_C2_OldestFirst ==
    /\ conversationHistory = LastOf(5, answered)
    /\ Len(answered) >= 1 =>
          formatHistory = Transcript(LastOf(5, answered), 1)

\* six answers were stored: the first is gone, the second is now Turn 1
Wit_C2_SixAnswers ==
    /\ Len(answered) = 6
    /\ conversationHistory = SubSeq(answered, 2, 6)
    /\ conversationHistory[1] # answered[1]
    /\ answered[1].question # answered[2].question

\* C3: when the vector index returns zero matches, the chat model is not
\* invoked for that question and the history equals the history before it.
Thm_C3_ZeroMatches ==
    (response.status = "matches" /\ Len(response.matches) = 0) =>
        /\ chatPc = "idle"
        /\ \A i \in 1..Len(calls) : calls[i] # "invoke"
        /\ conversationHistory = histBefore

\* a question got zero matches while the history was not empty
Wit_C3_ZeroMatches ==
    /\ response.status = "matches"
    /\ Len(response.matches) = 0
    /\ outcome = "no_matches"
    /\ Len(conversationHistory) > 0

\* C4 as stated: when every match has a missing or empty text, the program
\* reports "no relevant documents", does not invoke the chat model and leaves
\* the history unchanged.
Orig_C4_ReportsNoDocuments ==
    AllTextsEmpty =>
        /\ \E i \in 1..Len(console) : console[i] = MSG_NO_DOCS
        /\ \A i \in 1..Len(calls) : calls[i] # "invoke"
        /\ conversationHistory = histBefore

\* C4 amended: when every match has a missing or empty text, the operation
\* short-circuits after reporting that the search results hold no text
\* content (the "no relevant documents" message is not printed); the chat
\* model is not invoked and the history is unchanged.
Thm_C4_EmptyTexts ==
    AllTextsEmpty =>
        /\ chatPc = "idle"
        /\ console[Len(console)] = MSG_NO_TEXT
        /\ \A i \in 1..Len(console) : console[i] # MSG_NO_DOCS
        /\ \A i \in 1..Len(calls) : calls[i] # "invoke"
        /\ conversationHistory = histBefore

\* matches without metadata, without text and with an empty text came back
Wit_C4_EmptyTexts ==
    /\ AllTextsEmpty
    /\ Len(response.matches) = 2
    /\ ~response.matches[1].hasMetadata
    /\ response.matches[2].hasText
    /\ Len(conversationHistory) > 0
    /\ mainPc = "loop"

\* C5: when a question throws while embedding, searching or invoking the
\* chat model, chatting() returns normally with the history as it was before
\* the question, the process stays alive and the loop can go on to the next
\* prompt.
Thm_C5_ErrorsCaught ==
    outcome = "threw" =>
        /\ chatPc = "idle"
        /\ conversationHistory = histBefore
        /\ exitCode = Running
        /\ mainPc \in {"await", "loop"}
        /\ mainPc = "await" => ENABLED Resume
        /\ mainPc = "loop" => ENABLED Prompt

\* the chat model threw while the history was not empty
Wit_C5_InvokeThrew ==
    /\ outcome = "threw"
    /\ calls = <<"embed", "query", "invoke">>
    /\ Len(conversationHistory) > 0
    /\ mainPc = "loop"

\* C6: a line that spells exit, history or clear in any letter case makes no
\* embedding call, no vector-index query and no chat-model call.
Thm_C6_ReservedNeverRetrieved ==
    (LineRead /\ IsReserved(lastInput)) =>
        /\ calls = <<>>
        /\ chatPc = "idle"
        /\ outcome \in {"exit", "history", "clear"}

\* the mixed-case line HisTory was handled with a non-empty history
Wit_C6_MixedCaseCommand ==
    /\ LineRead
    /\ lastInput = <<72, 105, 115, 84, 111, 114, 121>>
    /\ outcome = "history"
    /\ Len(conversationHistory) > 0

\* C7: after a clear and until the next stored answer, the history is empty
\* and formatHistory() returns "No previous conversation.".
Thm_C7_ClearEmpties ==
    cleared =>
        /\ Len(conversationHistory) = 0
        /\ formatHistory = "No previous conversation."

\* a full history was cleared
Wit_C7_ClearedFull ==
    /\ cleared
    /\ outcome = "clear"
    /\ Len(histBefore) = 5

\* C8: ingestion runs only when the upload flag is "true"; when one of its
\* steps fails the process ends with exit code 1 without ever showing a
\* prompt or answering a question; leaving the loop through exit gives exit
\* code 0.
Thm_C8_IngestionAndExitCodes ==
    /\ ingestion # "none" => UPLOAD_TO_PINECONE = "true"
    /\ mainPc \in {"pdf_load", "split", "upload"} => UPLOAD_TO_PINECONE = "true"
    /\ ingestion = "failed" =>
          /\ exitCode = 1
          /\ mainPc = "exited"
          /\ ~loopEntered
          /\ calls = <<>>
          /\ clock = 0
    /\ exitCode = 1 => ingestion = "failed"
    /\ mainPc = "done" => exitCode = 0
    /\ outcome = "exit" => mainPc = "done" /\ exitCode = 0

\* the last ingestion step failed
Wit_C8_UploadFailed ==
    /\ ingestion = "failed"
    /\ Len(console) = 6
    /\ exitCode = 1

\* C9: a blank line makes no external call, leaves the history unchanged and
\* sends the loop back to the prompt; any other line that is not a reserved
\* command is passed unchanged to chatting().
Thm_C9_BlankIgnored ==
    LineRead =>
        /\ IsBlank(lastInput) =>
              /\ outcome = "skip"
              /\ calls = <<>>
              /\ chatPc = "idle"
              /\ conversationHistory = histBefore
              /\ mainPc = "loop"
              /\ ENABLED Prompt
        /\ (~IsBlank(lastInput) /\ ~IsReserved(lastInput)) =>
              /\ calls # <<>>
              /\ calls[1] = "embed"
              /\ question = lastInput
              /\ outcome \notin {"skip", "exit", "history", "clear"}

\* a line of a form feed only was skipped with a non-empty history
Wit_C9_WhitespaceLine ==
    /\ LineRead
    /\ lastInput = <<12>>
    /\ outcome = "skip"
    /\ Len(conversationHistory) > 0

\* C10: per question the calls happen in the order embed, query, invoke,
\* store, each at most once; the chat model is invoked only with a non-empty
\* context; and the loop reads no line while a question is in flight.
Thm_C10_PipelineOrder ==
    /\ IsPrefix(calls, <<"embed", "query", "invoke", "store">>)
    /\ chatPc = "embed" => calls = <<"embed">>
    /\ chatPc = "query" => calls = <<"embed", "query">>
    /\ chatPc = "invoke" =>
          /\ calls = <<"embed", "query", "invoke">>
          /\ invokeArgs.context # ""
    /\ (\E i \in 1..Len(calls) : calls[i] = "invoke") => SomeTextPresent
    /\ chatPc # "idle" => mainPc = "await"
    /\ mainPc \in {"loop", "read", "done", "exited"} => chatPc = "idle"

\* a question went through the whole pipeline and the loop resumed
Wit_C10_FullPipeline ==
    /\ calls = <<"embed", "query", "invoke", "store">>
    /\ mainPc = "loop"
    /\ outcome = "answered"
====
